---- MODULE Spec2Model ----
(***************************************************************************)
(* State-machine model of the content-management backend in src/db.js:     *)
(* the SQLite store (users, pages, blocks, media), the uploaded files, the  *)
(* per-client sessions and the Express request handlers.  Every handler is  *)
(* one action; request parameters are drawn from small sets.  Text values   *)
(* that the code converts (slugs, id parameters, JSON payloads) are         *)
(* sequences of characters or tokens, and the conversions are computed.     *)
(***************************************************************************)
EXTENDS Integers, Sequences, FiniteSets, TLC

\* ------------------------------------------------------------------ bounds
\* AUTOINCREMENT never reuses an id, so a bound on the rows ever inserted in
\* a table bounds the run.  The specifications below state them as guards.
MaxPages == 2        \* page rows ever inserted
MaxBlocks == 3       \* block rows ever inserted
MaxUsers == 2        \* user rows ever inserted, the seeded admin included
MaxRows == 1         \* rows ever inserted per table where one row is enough

\* ------------------------------------------------------------ characters
Digit == {"0", "1", "2", "3", "4", "5", "6", "7", "8", "9"}

DigitVal(c) ==
  CASE c = "0" -> 0 [] c = "1" -> 1 [] c = "2" -> 2 [] c = "3" -> 3
    [] c = "4" -> 4 [] c = "5" -> 5 [] c = "6" -> 6 [] c = "7" -> 7
    [] c = "8" -> 8 [] c = "9" -> 9

DigitCh(n) ==
  CASE n = 0 -> "0" [] n = 1 -> "1" [] n = 2 -> "2" [] n = 3 -> "3"
    [] n = 4 -> "4" [] n = 5 -> "5" [] n = 6 -> "6" [] n = 7 -> "7"
    [] n = 8 -> "8" [] n = 9 -> "9"

RECURSIVE SkipWs(_, _)
\* index of the first non-blank character of t at or after i
SkipWs(t, i) == IF i <= Len(t) /\ t[i] = " " THEN SkipWs(t, i + 1) ELSE i

RECURSIVE DigEnd(_, _)
\* index just past the run of digits of t that starts at i
DigEnd(t, i) == IF i <= Len(t) /\ t[i] \in Digit THEN DigEnd(t, i + 1) ELSE i

RECURSIVE DigVal(_, _, _)
\* decimal value of the digits t[i..j-1]
DigVal(t, i, j) ==
  IF j <= i THEN 0 ELSE DigVal(t, i, j - 1) * 10 + DigitVal(t[j - 1])

RECURSIVE Pow10(_)
Pow10(n) == IF n <= 0 THEN 1 ELSE 10 * Pow10(n - 1)

IsSign(t, i) == i <= Len(t) /\ t[i] \in {"+", "-"}

\* JavaScript parseInt(t, 10): leading blanks, an optional sign, then the
\* longest run of digits; anything after it is ignored; no digit gives NaN.
\* The scan is written as stages, each handing its position to the next.
parseIntDigits(t, neg, i1, i2) ==
  IF i2 = i1 THEN [nan |-> TRUE, v |-> 0]
  ELSE [nan |-> FALSE,
        v |-> IF neg THEN 0 - DigVal(t, i1, i2) ELSE DigVal(t, i1, i2)]

parseIntSigned(t, neg, i1) == parseIntDigits(t, neg, i1, DigEnd(t, i1))

parseIntAt(t, i0) ==
  parseIntSigned(t, IsSign(t, i0) /\ t[i0] = "-",
                 IF IsSign(t, i0) THEN i0 + 1 ELSE i0)

parseInt(t) == parseIntAt(t, SkipWs(t, 1))

\* SQLite comparing an INTEGER PRIMARY KEY column with a bound TEXT parameter
\* ("WHERE id=?" with req.params.id): the text gets NUMERIC affinity, i.e. it
\* is converted when the whole of it is a well-formed integer or real literal
\* (blanks around it allowed), and then compared as a number.  The result is
\* the integer the text denotes, or 0 (no row has id 0) when it denotes none.
\* Stages: blanks, sign, integer digits i1..i2, "." and fraction digits
\* i3..i4, exponent mark, exponent sign and digits i5..i6, blanks, end.

\* mant * 10^ex when that is an integer, else 0
sqlValue(mant, ex) ==
  IF ex >= 0 THEN mant * Pow10(ex)
  ELSE IF mant % Pow10(0 - ex) = 0 THEN mant \div Pow10(0 - ex) ELSE 0

sqlLiteral(t, neg, i1, i2, i3, i4, hasE, eneg, i5, i6) ==
  IF \/ neg
     \/ (i2 - i1) + (i4 - i3) = 0
     \/ (hasE /\ i6 <= i5)
     \/ SkipWs(t, i6) # Len(t) + 1
  THEN 0
  ELSE sqlValue(DigVal(t, i1, i2) * Pow10(i4 - i3) + DigVal(t, i3, i4),
                (IF eneg THEN 0 - DigVal(t, i5, i6) ELSE DigVal(t, i5, i6))
                  - (i4 - i3))

sqlExponent(t, neg, i1, i2, i3, i4, hasE, eneg, i5) ==
  sqlLiteral(t, neg, i1, i2, i3, i4, hasE, eneg, i5,
             IF hasE THEN DigEnd(t, i5) ELSE i4)

sqlMark(t, neg, i1, i2, i3, i4, hasE) ==
  sqlExponent(t, neg, i1, i2, i3, i4, hasE,
              hasE /\ IsSign(t, i4 + 1) /\ t[i4 + 1] = "-",
              IF hasE THEN (IF IsSign(t, i4 + 1) THEN i4 + 2 ELSE i4 + 1) ELSE i4)

sqlFraction(t, neg, i1, i2, i3, i4) ==
  sqlMark(t, neg, i1, i2, i3, i4, i4 <= Len(t) /\ t[i4] \in {"e", "E"})

sqlPoint(t, neg, i1, i2, i3) == sqlFraction(t, neg, i1, i2, i3, DigEnd(t, i3))

sqlInteger(t, neg, i1, i2) ==
  sqlPoint(t, neg, i1, i2, IF i2 <= Len(t) /\ t[i2] = "." THEN i2 + 1 ELSE i2)

sqlSigned(t, neg, i1) == sqlInteger(t, neg, i1, DigEnd(t, i1))

sqlIdAt(t, i0) ==
  sqlSigned(t, IsSign(t, i0) /\ t[i0] = "-",
            IF IsSign(t, i0) THEN i0 + 1 ELSE i0)

sqlIdOf(t) == sqlIdAt(t, SkipWs(t, 1))

\* The id parameter of a route, as the text of the URL segment.
PlainIds == {<<DigitCh(i)>> : i \in 1..(MaxBlocks + 1)}
RowIds == {<<DigitCh(i)>> : i \in 1..(MaxRows + 1)}
IdTexts ==
  {<<DigitCh(i)>> : i \in 1..(MaxUsers + 1)}
    \cup { <<"1", "0", "e", "-", "1">>,      \* 10e-1
           <<"2", "0", "e", "-", "1">>,      \* 20e-1
           <<"2", ".", "0">>,                \* 2.0
           <<" ", "1">>,
           <<"1", "x">>,
           <<"x">> }

\* sqlIdOf and parseInt of every id text of the model, computed once
IdOf == [t \in PlainIds \cup RowIds \cup IdTexts |-> sqlIdOf(t)]
IntOf == [t \in PlainIds \cup RowIds \cup IdTexts |-> parseInt(t)]

\* ------------------------------------------------------------------ slugs
Upper == {"A", "B"}
Lowercase == {"a", "b", "d", "n"}

toLowerCase(c) == CASE c = "A" -> "a" [] c = "B" -> "b" [] OTHER -> c

\* slugify's character map (the entries for the characters used here):
\* "&" is spelled out, every other character maps to itself.
charMap(c) == IF c = "&" THEN <<"a", "n", "d">> ELSE <<c>>

\* kept by slugify's default "remove" expression /[^\w\s$*_+~.()'"!\-:@]+/g
KeptByDefault(c) ==
  c \in Upper \cup Lowercase \cup Digit \cup {" ", "-", "!", "_", "."}

\* kept by the strict option, /[^A-Za-z0-9\s]/g
KeptByStrict(c) == c \in Upper \cup Lowercase \cup Digit \cup {" "}

RECURSIVE removeDefault(_)
removeDefault(t) ==
  IF t = <<>> THEN <<>>
  ELSE (IF KeptByDefault(Head(t)) THEN <<Head(t)>> ELSE <<>>)
       \o removeDefault(Tail(t))

RECURSIVE removeStrict(_)
removeStrict(t) ==
  IF t = <<>> THEN <<>>
  ELSE (IF KeptByStrict(Head(t)) THEN <<Head(t)>> ELSE <<>>)
       \o removeStrict(Tail(t))

RECURSIVE slugReduce(_)
\* the reduce over the characters: map the character, turn the replacement
\* character "-" into a blank, drop what the default expression removes
slugReduce(t) ==
  IF t = <<>> THEN <<>>
  ELSE LET m == charMap(Head(t))
           a == IF m = <<"-">> THEN <<" ">> ELSE m
       IN  removeDefault(a) \o slugReduce(Tail(t))

RECURSIVE trimStart(_)
trimStart(t) == IF t # <<>> /\ Head(t) = " " THEN trimStart(Tail(t)) ELSE t

RECURSIVE trimEnd(_)
trimEnd(t) ==
  IF t # <<>> /\ t[Len(t)] = " " THEN trimEnd(SubSeq(t, 1, Len(t) - 1)) ELSE t

trim(t) == trimEnd(trimStart(t))

RECURSIVE hyphenate(_)
\* replace(/\s+/g, "-"): every run of blanks becomes one hyphen
hyphenate(t) ==
  IF t = <<>> THEN <<>>
  ELSE IF Head(t) = " " THEN <<"-">> \o hyphenate(trimStart(t))
  ELSE <<Head(t)>> \o hyphenate(Tail(t))

RECURSIVE lower(_)
lower(t) == IF t = <<>> THEN <<>> ELSE <<toLowerCase(Head(t))>> \o lower(Tail(t))

\* slugify(input, { lower: true, strict: true, trim: true })
safeSlug(input) ==
  lower(hyphenate(trim(removeStrict(slugReduce(input)))))

\* JavaScript a || b on strings: the empty string is falsy
OrElse(a, b) == IF a # <<>> THEN a ELSE b

\* ------------------------------------------------------------------- JSON
\* A JSON text is a sequence of tokens: punctuation, string literals, number
\* literals and the words null/true/false.  A JSON value is a tagged record.
Pn(c) == [k |-> "punct", s |-> c]
St(c) == [k |-> "string", s |-> c]
Nm(c) == [k |-> "number", s |-> c]
Wd(c) == [k |-> "word", s |-> c]

JNull == [t |-> "null"]
JBool(b) == [t |-> "boolean", b |-> b]
JNum(c) == [t |-> "number", n |-> c]
JStr(c) == [t |-> "string", s |-> c]
JArr(a) == [t |-> "array", a |-> a]
JObj(m) == [t |-> "object", m |-> m]      \* m: sequence of <<key, value>>

Thrown == [ok |-> FALSE]
Parsed(v, i) == [ok |-> TRUE, v |-> v, i |-> i]

At(t, i, tok) == i <= Len(t) /\ t[i] = tok

RECURSIVE setMember(_, _, _)
\* an object's members with key set to v: a repeated key keeps its first
\* place and takes the last value
setMember(m, key, v) ==
  IF m = <<>> THEN << <<key, v>> >>
  ELSE IF Head(m)[1] = key THEN << <<key, v>> >> \o Tail(m)
  ELSE <<Head(m)>> \o setMember(Tail(m), key, v)

RECURSIVE parseValue(_, _)
RECURSIVE parseElements(_, _, _)
RECURSIVE parseMembers(_, _, _)

parseValue(t, i) ==
  IF i > Len(t) THEN Thrown
  ELSE CASE t[i].k = "string" -> Parsed(JStr(t[i].s), i + 1)
         [] t[i].k = "number" -> Parsed(JNum(t[i].s), i + 1)
         [] t[i] = Wd("null") -> Parsed(JNull, i + 1)
         [] t[i] = Wd("true") -> Parsed(JBool(TRUE), i + 1)
         [] t[i] = Wd("false") -> Parsed(JBool(FALSE), i + 1)
         [] t[i] = Pn("[") -> IF At(t, i + 1, Pn("]")) THEN Parsed(JArr(<<>>), i + 2)
                             ELSE parseElements(t, i + 1, <<>>)
         [] t[i] = Pn("{") -> IF At(t, i + 1, Pn("}")) THEN Parsed(JObj(<<>>), i + 2)
                             ELSE parseMembers(t, i + 1, <<>>)
         [] OTHER -> Thrown

parseElements(t, i, acc) ==
  LET r == parseValue(t, i)
  IN  IF ~r.ok THEN Thrown
      ELSE IF At(t, r.i, Pn(",")) THEN parseElements(t, r.i + 1, Append(acc, r.v))
      ELSE IF At(t, r.i, Pn("]")) THEN Parsed(JArr(Append(acc, r.v)), r.i + 1)
      ELSE Thrown

parseMembers(t, i, acc) ==
  IF ~(i + 1 <= Len(t) /\ t[i].k = "string" /\ t[i + 1] = Pn(":")) THEN Thrown
  ELSE LET r == parseValue(t, i + 2)
       IN  IF ~r.ok THEN Thrown
           ELSE IF At(t, r.i, Pn(","))
                THEN parseMembers(t, r.i + 1, setMember(acc, t[i].s, r.v))
           ELSE IF At(t, r.i, Pn("}"))
                THEN Parsed(JObj(setMember(acc, t[i].s, r.v)), r.i + 1)
           ELSE Thrown

\* JSON.parse: the value, or a throw when the text is not one JSON value
JSONparse(t) ==
  LET r == parseValue(t, 1)
  IN  IF r.ok /\ r.i = Len(t) + 1 THEN [ok |-> TRUE, v |-> r.v] ELSE Thrown

\* parseJsonSafe(s, fallback)
parseJsonSafe(t, fallback) ==
  LET r == JSONparse(t) IN IF r.ok THEN r.v ELSE fallback

RECURSIVE JSONstringify(_)
RECURSIVE stringifyElements(_)
RECURSIVE stringifyMembers(_)

JSONstringify(v) ==
  CASE v.t = "null" -> <<Wd("null")>>
    [] v.t = "boolean" -> <<Wd(IF v.b THEN "true" ELSE "false")>>
    [] v.t = "number" -> <<Nm(v.n)>>
    [] v.t = "string" -> <<St(v.s)>>
    [] v.t = "array" -> <<Pn("[")>> \o stringifyElements(v.a) \o <<Pn("]")>>
    [] v.t = "object" -> <<Pn("{")>> \o stringifyMembers(v.m) \o <<Pn("}")>>

stringifyElements(a) ==
  IF a = <<>> THEN <<>>
  ELSE JSONstringify(Head(a))
       \o (IF Len(a) > 1 THEN <<Pn(",")>> ELSE <<>>) \o stringifyElements(Tail(a))

stringifyMembers(m) ==
  IF m = <<>> THEN <<>>
  ELSE <<St(Head(m)[1]), Pn(":")>> \o JSONstringify(Head(m)[2])
       \o (IF Len(m) > 1 THEN <<Pn(",")>> ELSE <<>>) \o stringifyMembers(Tail(m))

\* JavaScript truthiness of a parsed value: null, false, 0 and "" are falsy
truthy(v) ==
  CASE v.t = "null" -> FALSE
    [] v.t = "boolean" -> v.b
    [] v.t = "number" -> v.n # "0"
    [] v.t = "string" -> v.s # ""
    [] OTHER -> TRUE

RECURSIVE hasArrayMember(_, _)
\* Array.isArray(obj[key]) over an object's members
hasArrayMember(m, key) ==
  IF m = <<>> THEN FALSE
  ELSE IF Head(m)[1] = key THEN Head(m)[2].t = "array"
  ELSE hasArrayMember(Tail(m), key)

\* Array.isArray(v.questions): a property read of a non-object is undefined
isArrayQuestions(v) == v.t = "object" /\ hasArrayMember(v.m, "questions")

\* ------------------------------------------------------------------ state
VARIABLES
  users,      \* rows of table users: [id, username, password_hash, role]
  userSeq,    \* sqlite_sequence of users (AUTOINCREMENT: the largest id used)
  pages,      \* rows of table pages: [id, title, slug, audience, status]
  pageSeq,
  blocks,     \* rows of table blocks: [id, page_id, type, data_json, position]
  blockSeq,
  media,      \* rows of table media: [id, filename]
  mediaSeq,
  files,      \* names of the files in public/uploads
  session,    \* req.session.user of every client session (NoUser: none)
  last,       \* the last request and the response it got
  tasks,      \* the block requests in progress, suspended at an await
  reqSeq      \* how many requests were begun that run in steps

store == <<users, userSeq, pages, pageSeq, blocks, blockSeq, media, mediaSeq, files>>
vars == <<users, userSeq, pages, pageSeq, blocks, blockSeq, media, mediaSeq, files,
          session, last, tasks, reqSeq>>

Sessions == {"s1", "s2"}
NoUser == [id |-> 0, username |-> "", role |-> ""]

\* the response kinds of the handlers
Responses ==
  { "ok",          \* the handler's redirect after it has done its work
    "login",       \* redirect to /admin/login (requireAuth, requireAdmin)
    "forbidden",   \* 403
    "notfound",    \* 404
    "badrequest",  \* 400
    "invalid",     \* the form again, with a validation message
    "conflict",    \* the form again, with "... already exists"
    "denied",      \* the login form again, "Invalid username or password"
    "fault" }      \* a rejected promise no handler code catches

\* last' : op, the session, the response, the row id the handler looked up
\* (what the request's id parameter denotes to the store; 0: none, or the
\* request was turned away before any lookup), what the request submitted
\* (arg: <<title, final slug>> of a page form, the type of a new block, the
\* quiz_json of a block form, the direction of a move, the file or user
\* name, the id text of a user delete, <<username, password>> of a login;
\* "" when turned away before it was read), and the constraint the
\* store rejected a write for ("": none).
Respond(op, s, resp, id, arg, rej) ==
  last' = [op |-> op, sid |-> s, resp |-> resp, id |-> id, arg |-> arg, rej |-> rej]

\* the response of a handler that ran from start to end with no other
\* request in between: it leaves the requests in progress as they are
Reply(op, s, resp, id, arg, rej) ==
  /\ Respond(op, s, resp, id, arg, rej)
  /\ UNCHANGED <<tasks, reqSeq>>

\* openDb opens the database and issues no "PRAGMA foreign_keys = ON":
\* SQLite then parses REFERENCES ... ON DELETE CASCADE and does not enforce it.
foreign_keys == FALSE

\* bcrypt.hash / bcrypt.compare
hash(password) == <<"bcrypt", password>>

\* a comparison that takes every password
compareAny(password, digest) == TRUE

compare(password, digest) == digest = hash(password)

Max(S) == IF S = {} THEN 0 ELSE CHOOSE x \in S : \A y \in S : y <= x

\* the id an INSERT gives a row of an AUTOINCREMENT table
NextId(rows, seq) == Max({r.id : r \in rows} \cup {seq}) + 1

\* The handlers are async functions: at every await of a storage call the
\* event loop may run another request.  A slot holds one request that is
\* suspended at an await, with the handler's local variables.
Slots == {"r1", "r2"}
Idle ==
  [op |-> "idle", pc |-> "", sid |-> "", page_id |-> 0, block_id |-> 0, dir |-> "",
   pos |-> 0, listing |-> <<>>, i |-> 0]
\* a slot whose request ended with a rejection keeps the mark of it until
\* another request begins there
Rejected == [Idle EXCEPT !.pc = "rejected"]
AllIdle == \A r \in Slots : tasks[r].op = "idle"

\* get(db, "SELECT * FROM <table> WHERE id=?", [text]): the rows it matches
RowsById(rows, idText) == {r \in rows : r.id = IdOf[idText]}

Init ==
  /\ users = {[id |-> 1, username |-> "admin", password_hash |-> hash("admin123"),
               role |-> "admin"]}
  /\ userSeq = 1
  /\ pages = {} /\ pageSeq = 0
  /\ blocks = {} /\ blockSeq = 0
  /\ media = {} /\ mediaSeq = 0
  /\ files = {}
  /\ session = [s \in Sessions |-> NoUser]
  /\ last = [op |-> "boot", sid |-> "s1", resp |-> "ok", id |-> 0, arg |-> "", rej |-> ""]
  /\ tasks = [r \in Slots |-> Idle]
  /\ reqSeq = 0

\* ----------------------------------------------------------- authorization
\* a gate that lets every request through
requireAuthOpen(s) == ""

\* requireAuth: "login" when the session has no user, "" to go on
requireAuth(s) == IF session[s] = NoUser THEN "login" ELSE ""

\* an admin gate that forgets the role test
requireAdminAnyRole(s) == IF session[s] = NoUser THEN "login" ELSE ""

\* requireAdmin
requireAdmin(s) ==
  IF session[s] = NoUser THEN "login"
  ELSE IF session[s].role # "admin" THEN "forbidden"
  ELSE ""

\* --------------------------------------------------------------- sessions
\* POST /admin/login
Login(s, username, password) ==
  LET found == {u \in users : u.username = username}
  IN  /\ UNCHANGED store
      /\ IF found = {} THEN
           /\ Reply("login", s, "denied", 0, <<username, password>>, "")
           /\ UNCHANGED session
         ELSE LET user == CHOOSE u \in found : TRUE
              IN  IF ~compare(password, user.password_hash) THEN
                    /\ Reply("login", s, "denied", user.id, <<username, password>>, "")
                    /\ UNCHANGED session
                  ELSE
                    /\ session' = [session EXCEPT ![s] =
                         [id |-> user.id, username |-> user.username, role |-> user.role]]
                    /\ Reply("login", s, "ok", user.id, <<username, password>>, "")

\* POST /admin/logout
Logout(s) ==
  /\ session' = [session EXCEPT ![s] = NoUser]
  /\ Reply("logout", s, "ok", 0, "", "")
  /\ UNCHANGED store

\* ------------------------------------------------------------------ pages
\* table pages without UNIQUE on slug
pagesConstraintNoUnique(others, slug, audience, status) ==
  IF audience \notin {"junior", "undergrad", "general"} THEN "check"
  ELSE IF status \notin {"draft", "published"} THEN "check"
  ELSE ""

\* The constraints of table pages on a row about to be written, against the
\* other rows: CHECK(audience ...), CHECK(status ...), then slug UNIQUE.
\* "" when the write is accepted.
pagesConstraint(others, slug, audience, status) ==
  IF audience \notin {"junior", "undergrad", "general"} THEN "check"
  ELSE IF status \notin {"draft", "published"} THEN "check"
  ELSE IF \E p \in others : p.slug = slug THEN "unique"
  ELSE ""

\* JavaScript a || b on a form field: a missing or empty field is falsy
Default(a, b) == IF a # "" THEN a ELSE b

\* POST /admin/pages/new
PageNew(s, title, slug, audience, status) ==
  /\ UNCHANGED <<users, userSeq, blocks, blockSeq, media, mediaSeq, files, session>>
  /\ IF requireAuth(s) # "" THEN
       /\ Reply("pageNew", s, requireAuth(s), 0, "", "")
       /\ UNCHANGED <<pages, pageSeq>>
     ELSE LET finalSlug == safeSlug(OrElse(slug, OrElse(title, <<>>)))
              aud == Default(audience, "general")
              st == Default(status, "draft")
              rej == pagesConstraint(pages, finalSlug, aud, st)
              id == NextId(pages, pageSeq)
          IN  IF title = <<>> \/ finalSlug = <<>> THEN
                /\ Reply("pageNew", s, "invalid", 0, <<title, finalSlug>>, "")
                /\ UNCHANGED <<pages, pageSeq>>
              ELSE IF rej # "" THEN
                /\ Reply("pageNew", s, "conflict", 0, <<title, finalSlug>>, rej)
                /\ UNCHANGED <<pages, pageSeq>>
              ELSE
                /\ pages' = pages \cup {[id |-> id, title |-> title, slug |-> finalSlug,
                                         audience |-> aud, status |-> st]}
                /\ pageSeq' = id
                /\ Reply("pageNew", s, "ok", id, <<title, finalSlug>>, "")

\* POST /admin/pages/:id/edit
PageEdit(s, idText, title, slug, audience, status) ==
  /\ UNCHANGED <<users, userSeq, pageSeq, blocks, blockSeq, media, mediaSeq, files,
                 session>>
  /\ IF requireAuth(s) # "" THEN
       /\ Reply("pageEdit", s, requireAuth(s), 0, "", "")
       /\ UNCHANGED pages
     ELSE IF RowsById(pages, idText) = {} THEN
       /\ Reply("pageEdit", s, "notfound", IdOf[idText], "", "")
       /\ UNCHANGED pages
     ELSE LET page == CHOOSE p \in RowsById(pages, idText) : TRUE
              finalSlug == safeSlug(OrElse(slug, OrElse(title, <<>>)))
              aud == Default(audience, "general")
              st == Default(status, "draft")
              rej == pagesConstraint(pages \ {page}, finalSlug, aud, st)
          IN  IF title = <<>> \/ finalSlug = <<>> THEN
                /\ Reply("pageEdit", s, "invalid", page.id, <<title, finalSlug>>, "")
                /\ UNCHANGED pages
              ELSE IF rej # "" THEN
                /\ Reply("pageEdit", s, "conflict", page.id, <<title, finalSlug>>, rej)
                /\ UNCHANGED pages
              ELSE
                /\ pages' = (pages \ {page}) \cup
                     {[id |-> page.id, title |-> title, slug |-> finalSlug,
                       audience |-> aud, status |-> st]}
                /\ Reply("pageEdit", s, "ok", page.id, <<title, finalSlug>>, "")

\* "DELETE FROM pages WHERE id=?": the page row goes; its block rows go with
\* it only when the connection enforces foreign keys.
deletePage(idText) ==
  /\ pages' = pages \ RowsById(pages, idText)
  /\ blocks' = IF foreign_keys
               THEN {b \in blocks : b.page_id # IdOf[idText]}
               ELSE blocks

\* POST /admin/pages/:id/delete
PageDelete(s, idText) ==
  /\ UNCHANGED <<users, userSeq, pageSeq, blockSeq, media, mediaSeq, files, session>>
  /\ IF requireAuth(s) # "" THEN
       /\ Reply("pageDelete", s, requireAuth(s), 0, "", "")
       /\ UNCHANGED <<pages, blocks>>
     ELSE IF session[s].role # "admin" THEN
       /\ Reply("pageDelete", s, "forbidden", 0, "", "")
       /\ UNCHANGED <<pages, blocks>>
     ELSE
       /\ deletePage(idText)
       /\ Reply("pageDelete", s, "ok", IdOf[idText], "", "")

\* ----------------------------------------------------------------- blocks
BlockTypes == {"text", "image", "video", "callout", "quiz"}

Field(key, text) == <<key, JStr(text)>>

\* the data a new block of the type starts with
defaultData(type) ==
  CASE type = "text" -> JObj(<<Field("heading", ""), Field("body", "")>>)
    [] type = "image" ->
         JObj(<<Field("heading", ""), Field("imageUrl", ""), Field("caption", "")>>)
    [] type = "video" ->
         JObj(<<Field("heading", ""), Field("mode", "youtube"), Field("youtubeUrl", ""),
                Field("mp4Url", ""), Field("caption", "")>>)
    [] type = "callout" -> JObj(<<Field("kind", "Key idea"), Field("body", "")>>)
    [] type = "quiz" ->
         JObj(<< Field("title", "Quick Quiz"),
                 <<"questions",
                   JArr(<< JObj(<< Field("q", "Sample question 1?"),
                                   <<"options",
                                     JArr(<<JStr("A"), JStr("B"), JStr("C"), JStr("D")>>)>>,
                                   <<"answer", JNum("0")>> >>) >>)>> >>)
    [] OTHER -> JObj(<<>>)

\* the rows of a page's blocks
BlocksOf(rows, pageId) == {b \in rows : b.page_id = pageId}

\* all(db, "SELECT * FROM blocks WHERE page_id=? ORDER BY position ASC"): the
\* sequences the query may return; rows of equal position come in any order.
RECURSIVE SortedDescending(_)
\* the listing in descending order of position
SortedDescending(bs) ==
  IF bs = {} THEN {<<>>}
  ELSE UNION {{<<m>> \o l : l \in SortedDescending(bs \ {m})} :
                m \in {b \in bs : \A c \in bs : b.position >= c.position}}

RECURSIVE Sorted(_)
Sorted(bs) ==
  IF bs = {} THEN {<<>>}
  ELSE UNION {{<<m>> \o l : l \in Sorted(bs \ {m})} :
                m \in {b \in bs : \A c \in bs : b.position <= c.position}}

Listings(rows, pageId) == Sorted(BlocksOf(rows, pageId))

\* a position that is the count itself
nextPositionIsCount(rows, pageId) == Cardinality(BlocksOf(rows, pageId))

\* the position of a new block: the count of the page's blocks, plus one
nextPosition(rows, pageId) == Cardinality(BlocksOf(rows, pageId)) + 1

\* POST /admin/pages/:id/blocks/add
BlockAdd(s, idText, type) ==
  /\ UNCHANGED <<users, userSeq, pages, pageSeq, media, mediaSeq, files, session>>
  /\ IF requireAuth(s) # "" THEN
       /\ Reply("blockAdd", s, requireAuth(s), 0, "", "")
       /\ UNCHANGED <<blocks, blockSeq>>
     ELSE IF RowsById(pages, idText) = {} THEN
       /\ Reply("blockAdd", s, "notfound", IdOf[idText], "", "")
       /\ UNCHANGED <<blocks, blockSeq>>
     ELSE LET page == CHOOSE p \in RowsById(pages, idText) : TRUE
              pos == nextPosition(blocks, page.id)
              id == NextId(blocks, blockSeq)
          IN  IF type \notin BlockTypes THEN
                \* CHECK(type IN ...) rejects the INSERT; nothing catches it
                /\ Reply("blockAdd", s, "fault", page.id, type, "check")
                /\ UNCHANGED <<blocks, blockSeq>>
              ELSE
                /\ blocks' = blocks \cup
                     {[id |-> id, page_id |-> page.id, type |-> type,
                       data_json |-> JSONstringify(defaultData(type)),
                       position |-> pos]}
                /\ blockSeq' = id
                /\ Reply("blockAdd", s, "ok", page.id, type, "")

\* the submitted fields of the block edit form; "" and <<>>: not submitted
NoForm ==
  [heading |-> "", body |-> "", imageUrl |-> "", caption |-> "", mode |-> "",
   youtubeUrl |-> "", mp4Url |-> "", kind |-> "", quiz_json |-> <<>>]

\* an edit handler that takes any quiz_json that parses to a truthy value
editDataAnyQuiz(type, form) ==
  IF type = "quiz"
  THEN LET parsed == parseJsonSafe(form.quiz_json, JNull)
       IN  IF ~truthy(parsed) THEN [ok |-> FALSE] ELSE [ok |-> TRUE, v |-> parsed]
  ELSE [ok |-> TRUE, v |-> JObj(<<Field("heading", Default(form.heading, "")),
                                  Field("body", Default(form.body, ""))>>)]

\* the data the edit handler builds from the form for a block of the type:
\* [ok |-> TRUE, v |-> data], or [ok |-> FALSE] for the quiz it refuses
editData(type, form) ==
  CASE type = "text" ->
         [ok |-> TRUE,
          v |-> JObj(<<Field("heading", Default(form.heading, "")),
                       Field("body", Default(form.body, ""))>>)]
    [] type = "image" ->
         [ok |-> TRUE,
          v |-> JObj(<<Field("heading", Default(form.heading, "")),
                       Field("imageUrl", Default(form.imageUrl, "")),
                       Field("caption", Default(form.caption, ""))>>)]
    [] type = "video" ->
         [ok |-> TRUE,
          v |-> JObj(<<Field("heading", Default(form.heading, "")),
                       Field("mode", Default(form.mode, "youtube")),
                       Field("youtubeUrl", Default(form.youtubeUrl, "")),
                       Field("mp4Url", Default(form.mp4Url, "")),
                       Field("caption", Default(form.caption, ""))>>)]
    [] type = "callout" ->
         [ok |-> TRUE,
          v |-> JObj(<<Field("kind", Default(form.kind, "Key idea")),
                       Field("body", Default(form.body, ""))>>)]
    [] type = "quiz" ->
         LET parsed == parseJsonSafe(form.quiz_json, JNull)
         IN  IF ~truthy(parsed) \/ ~isArrayQuestions(parsed)
             THEN [ok |-> FALSE]
             ELSE [ok |-> TRUE, v |-> parsed]
    [] OTHER -> [ok |-> TRUE, v |-> JObj(<<>>)]

\* POST /admin/blocks/:blockId/edit
BlockEdit(s, idText, form) ==
  /\ UNCHANGED <<users, userSeq, pages, pageSeq, blockSeq, media, mediaSeq, files,
                 session>>
  /\ IF requireAuth(s) # "" THEN
       /\ Reply("blockEdit", s, requireAuth(s), 0, "", "")
       /\ UNCHANGED blocks
     ELSE IF RowsById(blocks, idText) = {} THEN
       /\ Reply("blockEdit", s, "notfound", IdOf[idText], "", "")
       /\ UNCHANGED blocks
     ELSE LET block == CHOOSE b \in RowsById(blocks, idText) : TRUE
              hasPage == \E p \in pages : p.id = block.page_id
              data == editData(block.type, form)
          IN  IF ~data.ok THEN
                /\ Reply("blockEdit", s, "invalid", block.id, form.quiz_json, "")
                /\ UNCHANGED blocks
              ELSE
                /\ blocks' = (blocks \ {block}) \cup
                     {[block EXCEPT !.data_json = JSONstringify(data.v)]}
                \* the redirect reads page.id: it throws when the page row
                \* is gone, after the UPDATE has run
                /\ Reply("blockEdit", s, IF hasPage THEN "ok" ELSE "fault",
                         block.id, form.quiz_json, "")

\* the renumbering loop writing the loop index i instead of i + 1
RenumberedFromZero(rows, listing) ==
  {[b EXCEPT !.position =
      IF \E i \in DOMAIN listing : listing[i].id = b.id
      THEN (CHOOSE i \in DOMAIN listing : listing[i].id = b.id) - 1
      ELSE b.position] : b \in rows}

\* a delete handler without the renumbering loop
RenumberedNot(rows, listing) == rows

\* the renumbering loop of the delete handler over one listing
Renumbered(rows, listing) ==
  {[b EXCEPT !.position =
      IF \E i \in DOMAIN listing : listing[i].id = b.id
      THEN CHOOSE i \in DOMAIN listing : listing[i].id = b.id
      ELSE b.position] : b \in rows}

\* POST /admin/blocks/:blockId/delete
BlockDelete(s, idText) ==
  /\ UNCHANGED <<users, userSeq, pages, pageSeq, blockSeq, media, mediaSeq, files,
                 session>>
  /\ IF requireAuth(s) # "" THEN
       /\ Reply("blockDelete", s, requireAuth(s), 0, "", "")
       /\ UNCHANGED blocks
     ELSE IF RowsById(blocks, idText) = {} THEN
       /\ Reply("blockDelete", s, "notfound", IdOf[idText], "", "")
       /\ UNCHANGED blocks
     ELSE LET block == CHOOSE b \in RowsById(blocks, idText) : TRUE
              rest == blocks \ {block}
          IN  /\ \E listing \in Listings(rest, block.page_id) :
                   blocks' = Renumbered(rest, listing)
              /\ Reply("blockDelete", s, "ok", block.id, "", "")

\* index of the row with the id in a listing, 0 when it is not there
\* (findIndex, counted from 1)
findIndex(listing, id) ==
  IF \E i \in DOMAIN listing : listing[i].id = id
  THEN CHOOSE i \in DOMAIN listing : listing[i].id = id
  ELSE 0

\* the directions taken the wrong way round
swapIndexInverted(idx, dir) ==
  IF dir = "down" THEN idx - 1
  ELSE IF dir = "up" THEN idx + 1
  ELSE idx

\* the index the move handler swaps with
swapIndex(idx, dir) ==
  IF dir = "down" THEN idx + 1
  ELSE IF dir = "up" THEN idx - 1
  ELSE idx

\* the second UPDATE reading a's position after the first has changed it
SwappedStale(rows, a, b) ==
  {IF r.id = a.id THEN [r EXCEPT !.position = b.position] ELSE r : r \in rows}

\* the two UPDATEs of the move handler: a gets b's position, then b gets a's
Swapped(rows, a, b) ==
  LET first == {IF r.id = a.id THEN [r EXCEPT !.position = b.position] ELSE r :
                  r \in rows}
  IN  {IF r.id = b.id THEN [r EXCEPT !.position = a.position] ELSE r : r \in first}

\* POST /admin/blocks/:blockId/move
BlockMove(s, idText, dir) ==
  /\ UNCHANGED <<users, userSeq, pages, pageSeq, blockSeq, media, mediaSeq, files,
                 session>>
  /\ IF requireAuth(s) # "" THEN
       /\ Reply("blockMove", s, requireAuth(s), 0, dir, "")
       /\ UNCHANGED blocks
     ELSE IF RowsById(blocks, idText) = {} THEN
       /\ Reply("blockMove", s, "notfound", IdOf[idText], dir, "")
       /\ UNCHANGED blocks
     ELSE LET block == CHOOSE b \in RowsById(blocks, idText) : TRUE
          IN  /\ \E listing \in Listings(blocks, block.page_id) :
                   LET idx == findIndex(listing, block.id)
                       swapIdx == swapIndex(idx, dir)
                   IN  IF idx = 0 \/ swapIdx < 1 \/ swapIdx > Len(listing)
                       THEN UNCHANGED blocks
                       ELSE blocks' = Swapped(blocks, listing[idx], listing[swapIdx])
              /\ Reply("blockMove", s, "ok", block.id, dir, "")

\* ------------------------------------------------- block requests in steps
\* The add, delete and move handlers again, one action per stretch of code
\* between two awaits.  A request begins with its first query (the gate and
\* the lookup of its row); requests the gate or the lookup turns away end in
\* that same stretch and are covered by the handlers above.

\* a request begins in slot r as task t
Begin(r, t) ==
  /\ tasks[r].op = "idle"
  /\ tasks' = [tasks EXCEPT ![r] = t]
  /\ reqSeq' = reqSeq + 1
  /\ UNCHANGED <<store, session, last>>

\* the request of slot r goes on to its next await as task t
Goto(r, t) == tasks' = [tasks EXCEPT ![r] = t] /\ UNCHANGED reqSeq

\* the request of slot r ends
Finish(r) == tasks' = [tasks EXCEPT ![r] = Idle] /\ UNCHANGED reqSeq

Suspended(r, op, pc) == tasks[r].op = op /\ tasks[r].pc = pc

\* "UPDATE blocks SET position=? WHERE id=?"
SetPosition(rows, id, position) ==
  {IF b.id = id THEN [b EXCEPT !.position = position] ELSE b : b \in rows}

\* add: the page lookup
AddStart(r, s, idText) ==
  /\ requireAuth(s) = ""
  /\ RowsById(pages, idText) # {}
  /\ Begin(r, [Idle EXCEPT !.op = "blockAdd", !.pc = "count", !.sid = s,
                           !.page_id = IdOf[idText]])

\* add: the COUNT query and the position computed from it
AddCount(r) ==
  /\ Suspended(r, "blockAdd", "count")
  /\ Goto(r, [tasks[r] EXCEPT !.pc = "insert",
                             !.pos = nextPosition(blocks, tasks[r].page_id)])
  /\ UNCHANGED <<store, session, last>>

\* add: the INSERT and the redirect
AddInsert(r) ==
  /\ Suspended(r, "blockAdd", "insert")
  /\ blocks' = blocks \cup
       {[id |-> NextId(blocks, blockSeq), page_id |-> tasks[r].page_id,
         type |-> "text", data_json |-> JSONstringify(defaultData("text")),
         position |-> tasks[r].pos]}
  /\ blockSeq' = NextId(blocks, blockSeq)
  /\ Finish(r)
  /\ Respond("blockAdd", tasks[r].sid, "ok", tasks[r].page_id, "text", "")
  /\ UNCHANGED <<users, userSeq, pages, pageSeq, media, mediaSeq, files, session>>

\* delete: the block lookup
DelStart(r, s, idText) ==
  /\ requireAuth(s) = ""
  /\ RowsById(blocks, idText) # {}
  /\ Begin(r, [Idle EXCEPT !.op = "blockDelete", !.pc = "delete", !.sid = s,
                           !.block_id = IdOf[idText],
                           !.page_id = (CHOOSE b \in RowsById(blocks, idText) : TRUE).page_id])

\* delete: the DELETE
DelDelete(r) ==
  /\ Suspended(r, "blockDelete", "delete")
  /\ blocks' = {b \in blocks : b.id # tasks[r].block_id}
  /\ Goto(r, [tasks[r] EXCEPT !.pc = "list"])
  /\ UNCHANGED <<users, userSeq, pages, pageSeq, blockSeq, media, mediaSeq, files,
                 session, last>>

\* delete: the listing of the page's remaining blocks
DelList(r) ==
  /\ Suspended(r, "blockDelete", "list")
  /\ \E listing \in Listings(blocks, tasks[r].page_id) :
       Goto(r, [tasks[r] EXCEPT !.pc = "renumber", !.listing = listing, !.i = 1])
  /\ UNCHANGED <<store, session, last>>

\* delete: one UPDATE of the renumbering loop
DelUpdate(r) ==
  /\ Suspended(r, "blockDelete", "renumber")
  /\ tasks[r].i <= Len(tasks[r].listing)
  /\ blocks' = SetPosition(blocks, tasks[r].listing[tasks[r].i].id, tasks[r].i)
  /\ Goto(r, [tasks[r] EXCEPT !.i = tasks[r].i + 1])
  /\ UNCHANGED <<users, userSeq, pages, pageSeq, blockSeq, media, mediaSeq, files,
                 session, last>>

\* delete: the loop is over, the redirect
DelFinish(r) ==
  /\ Suspended(r, "blockDelete", "renumber")
  /\ tasks[r].i > Len(tasks[r].listing)
  /\ Finish(r)
  /\ Respond("blockDelete", tasks[r].sid, "ok", tasks[r].block_id, "", "")
  /\ UNCHANGED <<store, session>>

\* delete: the listing query or an UPDATE of the loop is rejected by the
\* store (run and all reject on an error, and the handler catches nothing):
\* the handler ends there, with the row deleted and the rest as it stands
DelFail(r) ==
  /\ tasks[r].op = "blockDelete" /\ tasks[r].pc \in {"list", "renumber"}
  /\ tasks' = [tasks EXCEPT ![r] = Rejected] /\ UNCHANGED reqSeq
  /\ Respond("blockDelete", tasks[r].sid, "fault", tasks[r].block_id, "", "store")
  /\ UNCHANGED <<store, session>>

\* move: the block lookup
MoveStart(r, s, idText, dir) ==
  /\ requireAuth(s) = ""
  /\ RowsById(blocks, idText) # {}
  /\ Begin(r, [Idle EXCEPT !.op = "blockMove", !.pc = "list", !.sid = s, !.dir = dir,
                           !.block_id = IdOf[idText],
                           !.page_id = (CHOOSE b \in RowsById(blocks, idText) : TRUE).page_id])

\* the move of slot r, with the listing it read, has nothing to swap
NothingToSwap(r, listing) ==
  \/ findIndex(listing, tasks[r].block_id) = 0
  \/ swapIndex(findIndex(listing, tasks[r].block_id), tasks[r].dir) < 1
  \/ swapIndex(findIndex(listing, tasks[r].block_id), tasks[r].dir) > Len(listing)

\* move: the listing; the request ends here when there is nothing to swap
MoveList(r) ==
  /\ Suspended(r, "blockMove", "list")
  /\ \E listing \in Listings(blocks, tasks[r].page_id) :
       IF NothingToSwap(r, listing) THEN
         /\ Finish(r)
         /\ Respond("blockMove", tasks[r].sid, "ok", tasks[r].block_id, tasks[r].dir, "")
       ELSE
         /\ Goto(r, [tasks[r] EXCEPT !.pc = "first", !.listing = listing,
                                    !.i = findIndex(listing, tasks[r].block_id)])
         /\ UNCHANGED last
  /\ UNCHANGED <<store, session>>

\* move: the first UPDATE, a gets the position b had in the listing
MoveFirst(r) ==
  /\ Suspended(r, "blockMove", "first")
  /\ blocks' = SetPosition(blocks, tasks[r].listing[tasks[r].i].id,
                  tasks[r].listing[swapIndex(tasks[r].i, tasks[r].dir)].position)
  /\ Goto(r, [tasks[r] EXCEPT !.pc = "second"])
  /\ UNCHANGED <<users, userSeq, pages, pageSeq, blockSeq, media, mediaSeq, files,
                 session, last>>

\* move: the second UPDATE, b gets the position a had in the listing, and
\* the redirect
MoveSecond(r) ==
  /\ Suspended(r, "blockMove", "second")
  /\ blocks' = SetPosition(blocks, tasks[r].listing[swapIndex(tasks[r].i, tasks[r].dir)].id,
                  tasks[r].listing[tasks[r].i].position)
  /\ Finish(r)
  /\ Respond("blockMove", tasks[r].sid, "ok", tasks[r].block_id, tasks[r].dir, "")
  /\ UNCHANGED <<users, userSeq, pages, pageSeq, blockSeq, media, mediaSeq, files,
                 session>>

\* ------------------------------------------------------------------ media
\* POST /admin/media/upload.  requireAuth runs before multer: a request it
\* turns away stores no file.  hasFile: the form carried a file, which multer
\* has written to public/uploads under filename.
MediaUpload(s, hasFile, filename) ==
  /\ UNCHANGED <<users, userSeq, pages, pageSeq, blocks, blockSeq, session>>
  /\ IF requireAuth(s) # "" THEN
       /\ Reply("mediaUpload", s, requireAuth(s), 0, "", "")
       /\ UNCHANGED <<media, mediaSeq, files>>
     ELSE IF ~hasFile THEN
       /\ Reply("mediaUpload", s, "ok", 0, "", "")
       /\ UNCHANGED <<media, mediaSeq, files>>
     ELSE LET id == NextId(media, mediaSeq)
          IN  /\ files' = files \cup {filename}
              /\ media' = media \cup {[id |-> id, filename |-> filename]}
              /\ mediaSeq' = id
              /\ Reply("mediaUpload", s, "ok", id, filename, "")

\* a handler that goes on to the DELETE when the unlink throws
removeItemIgnoringUnlink(item, unlinkOk, deleteOk) ==
  IF ~deleteOk THEN
    [resp |-> "fault", rej |-> "delete", media |-> media,
     files |-> IF unlinkOk THEN files \ {item.filename} ELSE files]
  ELSE
    [resp |-> "ok", rej |-> "", media |-> media \ {item},
     files |-> IF unlinkOk THEN files \ {item.filename} ELSE files]

\* what the delete handler does with the row it found: unlink the file when
\* it exists, then DELETE the row.  unlinkOk: fs.unlinkSync succeeds;
\* deleteOk: the DELETE statement succeeds.  A throw of either ends the
\* handler there with a rejection.
removeItem(item, unlinkOk, deleteOk) ==
  IF item.filename \in files /\ ~unlinkOk THEN
    [resp |-> "fault", rej |-> "unlink", media |-> media, files |-> files]
  ELSE IF ~deleteOk THEN
    [resp |-> "fault", rej |-> "delete", media |-> media,
     files |-> files \ {item.filename}]
  ELSE
    [resp |-> "ok", rej |-> "", media |-> media \ {item},
     files |-> files \ {item.filename}]

\* the row found and its outcome written to the store and the response
MediaDeleteItem(s, item, out) ==
  /\ files' = out.files
  /\ media' = out.media
  /\ Reply("mediaDelete", s, out.resp, item.id, item.filename, out.rej)

\* POST /admin/media/:id/delete
MediaDelete(s, idText, unlinkOk, deleteOk) ==
  /\ UNCHANGED <<users, userSeq, pages, pageSeq, blocks, blockSeq, mediaSeq, session>>
  /\ IF requireAuth(s) # "" THEN
       /\ Reply("mediaDelete", s, requireAuth(s), 0, "", "")
       /\ UNCHANGED <<media, files>>
     ELSE IF session[s].role # "admin" THEN
       /\ Reply("mediaDelete", s, "forbidden", 0, "", "")
       /\ UNCHANGED <<media, files>>
     ELSE IF RowsById(media, idText) = {} THEN
       /\ Reply("mediaDelete", s, "ok", IdOf[idText], "", "")
       /\ UNCHANGED <<media, files>>
     ELSE MediaDeleteItem(s, CHOOSE m \in RowsById(media, idText) : TRUE,
                          removeItem(CHOOSE m \in RowsById(media, idText) : TRUE,
                                     unlinkOk, deleteOk))

\* ------------------------------------------------------------------ users
\* POST /admin/users/new
UserNew(s, username, password, role) ==
  /\ UNCHANGED <<pages, pageSeq, blocks, blockSeq, media, mediaSeq, files, session>>
  /\ IF requireAdmin(s) # "" THEN
       /\ Reply("userNew", s, requireAdmin(s), 0, "", "")
       /\ UNCHANGED <<users, userSeq>>
     ELSE IF username = "" \/ password = "" THEN
       /\ Reply("userNew", s, "invalid", 0, username, "")
       /\ UNCHANGED <<users, userSeq>>
     ELSE IF \E u \in users : u.username = username THEN
       \* username UNIQUE rejects the INSERT; the catch reports it
       /\ Reply("userNew", s, "conflict", 0, username, "unique")
       /\ UNCHANGED <<users, userSeq>>
     ELSE LET id == NextId(users, userSeq)
          IN  /\ users' = users \cup
                   {[id |-> id, username |-> username, password_hash |-> hash(password),
                     role |-> IF role = "admin" THEN "admin" ELSE "editor"]}
              /\ userSeq' = id
              /\ Reply("userNew", s, "ok", id, username, "")

\* the self-deletion test of the user delete handler
isSelf(s, idText) ==
  LET n == IntOf[idText] IN ~n.nan /\ n.v = session[s].id

\* POST /admin/users/:id/delete
UserDelete(s, idText) ==
  /\ UNCHANGED <<userSeq, pages, pageSeq, blocks, blockSeq, media, mediaSeq, files,
                 session>>
  /\ IF requireAdmin(s) # "" THEN
       /\ Reply("userDelete", s, requireAdmin(s), 0, "", "")
       /\ UNCHANGED users
     ELSE IF isSelf(s, idText) THEN
       /\ Reply("userDelete", s, "badrequest", IdOf[idText], idText, "")
       /\ UNCHANGED users
     ELSE
       /\ users' = users \ RowsById(users, idText)
       /\ Reply("userDelete", s, "ok", IdOf[idText], idText, "")

\* ----------------------------------------------------------------- reads
\* GET /: the pages of the public home listing
PublicHome == {p \in pages : p.status = "published"}

\* GET /admin: the pages of the dashboard
Dashboard == pages

\* a public fetch that does not test the status
PublicPageAnyStatus(slug) ==
  LET found == {p \in pages : p.slug = slug}
  IN  IF found = {} THEN [resp |-> "notfound", blocks |-> {}]
      ELSE [resp |-> "ok",
            blocks |-> BlocksOf(blocks, (CHOOSE p \in found : TRUE).id)]

\* GET /p/:slug: not found, or the page with a listing of its blocks
PublicPage(slug) ==
  LET found == {p \in pages : p.slug = slug /\ p.status = "published"}
  IN  IF found = {} THEN [resp |-> "notfound", blocks |-> {}]
      ELSE [resp |-> "ok",
            blocks |-> BlocksOf(blocks, (CHOOSE p \in found : TRUE).id)]

\* GET /admin/pages/:id/edit and GET /admin/pages/:id/blocks: the page row
\* the handler finds for the id ({}: 404)
AdminPage(idText) == RowsById(pages, idText)

\* GET /admin/blocks/:blockId/edit: the block row the handler finds
AdminBlock(idText) == RowsById(blocks, idText)

\* GET /p/:slug and GET /admin/pages/:id/blocks in steps: the page lookup is
\* one awaited query, the listing of the page's blocks the next.  The
\* response carries the listing as the query returned it (renderBlocks and
\* the admin view map over the rows in order), recorded in last.arg.

\* "SELECT * FROM pages WHERE slug=? AND status='published'"
PublishedBySlug(slug) == {p \in pages : p.slug = slug /\ p.status = "published"}

\* GET /p/:slug: the page lookup (no gate: s may hold no user)
PublicStart(r, s, slug) ==
  /\ tasks[r].op = "idle"
  /\ IF PublishedBySlug(slug) = {} THEN
       /\ Reply("publicPage", s, "notfound", 0, slug, "")
       /\ UNCHANGED <<store, session>>
     ELSE
       Begin(r, [Idle EXCEPT !.op = "publicPage", !.pc = "list", !.sid = s,
                             !.page_id = (CHOOSE p \in PublishedBySlug(slug) : TRUE).id])

\* GET /p/:slug: the listing and the render
PublicList(r) ==
  /\ Suspended(r, "publicPage", "list")
  /\ \E listing \in Listings(blocks, tasks[r].page_id) :
       Respond("publicPage", tasks[r].sid, "ok", tasks[r].page_id, listing, "")
  /\ Finish(r)
  /\ UNCHANGED <<store, session>>

\* GET /admin/pages/:id/blocks: the gate and the page lookup
BlocksStart(r, s, idText) ==
  /\ tasks[r].op = "idle"
  /\ IF requireAuth(s) # "" THEN
       /\ Reply("pageBlocks", s, requireAuth(s), 0, "", "")
       /\ UNCHANGED <<store, session>>
     ELSE IF RowsById(pages, idText) = {} THEN
       /\ Reply("pageBlocks", s, "notfound", 0, idText, "")
       /\ UNCHANGED <<store, session>>
     ELSE
       Begin(r, [Idle EXCEPT !.op = "pageBlocks", !.pc = "list", !.sid = s,
                             !.page_id = (CHOOSE p \in RowsById(pages, idText) : TRUE).id])

\* GET /admin/pages/:id/blocks: the listing and the render
BlocksList(r) ==
  /\ Suspended(r, "pageBlocks", "list")
  /\ \E listing \in Listings(blocks, tasks[r].page_id) :
       Respond("pageBlocks", tasks[r].sid, "ok", tasks[r].page_id, listing, "")
  /\ Finish(r)
  /\ UNCHANGED <<store, session>>

\* ----------------------------------------------------------------- inputs
Credentials ==
  { <<"admin", "admin123">>, <<"admin", "pw">>, <<"ed", "pw">>, <<"", "">> }

UserForm(username, password, role) ==
  [username |-> username, password |-> password, role |-> role]

UserForms ==
  { UserForm("ed", "pw", "editor"), UserForm("ed", "pw", "admin"),
    UserForm("ed", "pw", "owner"), UserForm("admin", "pw", ""),
    UserForm("", "pw", "editor"), UserForm("ed", "", "editor") }

PageForm(title, slug, audience, status) ==
  [title |-> title, slug |-> slug, audience |-> audience, status |-> status]

\* two forms that give two pages
PlainPageForms ==
  { PageForm(<<"A">>, <<>>, "", ""),
    PageForm(<<"a", " ", "B">>, <<>>, "junior", "published") }

PageForms ==
  PlainPageForms
    \cup { PageForm(<<"A">>, <<" ", "A", "-", "b", "!">>, "", "published"),
           PageForm(<<"B">>, <<"A">>, "undergrad", "draft"),
           PageForm(<<>>, <<"A">>, "", ""),
           PageForm(<<"A">>, <<"!">>, "", ""),
           PageForm(<<"B">>, <<>>, "expert", ""),
           PageForm(<<"A">>, <<>>, "expert", ""),
           PageForm(<<"B">>, <<>>, "", "archived") }

TypeInputs == BlockTypes \cup {"", "poll"}
Dirs == {"up", "down", ""}

QuizTexts ==
  { <<>>,                                                     \* not submitted
    <<Pn("{")>>,                                              \* not JSON
    <<Wd("null")>>,
    <<Nm("7")>>,
    <<Pn("["), Pn("]")>>,
    <<Pn("{"), Pn("}")>>,
    <<Pn("{"), St("questions"), Pn(":"), Nm("3"), Pn("}")>>,
    <<Pn("{"), St("questions"), Pn(":"), Pn("["), Pn("]"), Pn("}")>>,
    <<Pn("{"), St("title"), Pn(":"), St("T"), Pn(","), St("questions"), Pn(":"),
      Pn("["), Pn("{"), St("q"), Pn(":"), St("Q"), Pn(","), St("options"), Pn(":"),
      Pn("["), St("A"), Pn(","), St("B"), Pn("]"), Pn(","), St("answer"), Pn(":"),
      Nm("1"), Pn("}"), Pn("]"), Pn("}")>> }

Forms ==
  {NoForm, [NoForm EXCEPT !.heading = "H", !.mode = "mp4", !.kind = "Fun fact"]}
    \cup {[NoForm EXCEPT !.quiz_json = q] : q \in QuizTexts}

FileNames == {"1_a.mp4"}

\* --------------------------------------------------------- specifications
\* Spec: every handler, requests of one client, up to MaxRows rows inserted
\* per table (the seeded admin not counted).
OneClient == {"s1"}

Next ==
  \/ \E s \in OneClient, c \in {<<"admin", "admin123">>, <<"ed", "pw">>} :
       Login(s, c[1], c[2])
  \/ \E s \in OneClient : Logout(s)
  \/ \E s \in OneClient :
       pageSeq < MaxRows /\ PageNew(s, <<"A">>, <<>>, "", "")
  \/ \E s \in OneClient, i \in RowIds : PageEdit(s, i, <<"B">>, <<>>, "junior", "published")
  \/ \E s \in OneClient, i \in RowIds : PageDelete(s, i)
  \/ \E s \in OneClient, i \in RowIds :
       blockSeq < MaxRows /\ BlockAdd(s, i, "text")
  \/ \E s \in OneClient, i \in RowIds :
       BlockEdit(s, i, [NoForm EXCEPT !.heading = "H"])
  \/ \E s \in OneClient, i \in RowIds : BlockDelete(s, i)
  \/ \E s \in OneClient, i \in RowIds : BlockMove(s, i, "up")
  \/ \E s \in OneClient, f \in FileNames :
       mediaSeq < MaxRows /\ MediaUpload(s, TRUE, f)
  \/ \E s \in OneClient, i \in RowIds : MediaDelete(s, i, TRUE, TRUE)
  \/ \E s \in OneClient :
       userSeq < 1 + MaxRows /\ UserNew(s, "ed", "pw", "editor")
  \/ \E s \in OneClient, i \in RowIds : UserDelete(s, i)

Spec == Init /\ [][Next]_vars

\* SpecBlocks: the ordering of blocks.  One client; pages are created and
\* deleted, blocks added, deleted and moved.
NextBlocks ==
  \/ \E s \in OneClient : Login(s, "admin", "admin123")
  \/ \E s \in OneClient, f \in PlainPageForms :
       pageSeq < MaxPages /\ PageNew(s, f.title, f.slug, f.audience, f.status)
  \/ \E s \in OneClient, i \in PlainIds : PageDelete(s, i)
  \/ \E s \in OneClient, i \in PlainIds :
       blockSeq < MaxBlocks /\ BlockAdd(s, i, "text")
  \/ \E s \in OneClient, i \in PlainIds : BlockDelete(s, i)
  \/ \E s \in OneClient, i \in PlainIds, d \in Dirs : BlockMove(s, i, d)

SpecBlocks == Init /\ [][NextBlocks]_vars

\* SpecUsers: sessions and user management, two clients.
NextUsers ==
  \/ \E s \in Sessions, c \in Credentials : Login(s, c[1], c[2])
  \/ \E s \in Sessions : Logout(s)
  \/ \E s \in Sessions, f \in UserForms :
       userSeq < MaxUsers /\ UserNew(s, f.username, f.password, f.role)
  \/ \E s \in Sessions, i \in IdTexts : UserDelete(s, i)

SpecUsers == Init /\ [][NextUsers]_vars

\* SpecPages: page creation and editing with every kind of form.
NextPages ==
  \/ \E s \in OneClient : Login(s, "admin", "admin123")
  \/ \E s \in OneClient : Logout(s)
  \/ \E s \in OneClient, f \in PageForms :
       pageSeq < MaxPages /\ PageNew(s, f.title, f.slug, f.audience, f.status)
  \/ \E s \in OneClient, i \in PlainIds, f \in PageForms :
       PageEdit(s, i, f.title, f.slug, f.audience, f.status)
  \/ \E s \in OneClient, i \in PlainIds : PageDelete(s, i)
  \/ \E s \in OneClient, f \in UserForms :
       userSeq < MaxUsers /\ UserNew(s, f.username, f.password, f.role)

SpecPages == Init /\ [][NextPages]_vars

\* SpecContent: block payloads.  One page, blocks of every type, every form.
NextContent ==
  \/ \E s \in OneClient : Login(s, "admin", "admin123")
  \/ \E s \in OneClient :
       pageSeq < MaxRows /\ PageNew(s, <<"A">>, <<>>, "", "")
  \/ \E s \in OneClient, i \in RowIds : PageDelete(s, i)
  \/ \E s \in OneClient, i \in RowIds, ty \in TypeInputs :
       blockSeq < MaxRows /\ BlockAdd(s, i, ty)
  \/ \E s \in OneClient, i \in RowIds, f \in Forms : BlockEdit(s, i, f)

SpecContent == Init /\ [][NextContent]_vars

\* SpecRace: two requests on one page that interleave at their awaits.  The
\* page and its blocks are set up by requests that run alone; then two
\* requests run in steps: two adds, an add and a delete, a move and a delete,
\* or two moves of adjacent blocks.
PositionOf(id) == (CHOOSE b \in blocks : b.id = id).position

Adjacent(id1, id2) ==
  /\ \E b \in blocks : b.id = id1
  /\ \E b \in blocks : b.id = id2
  /\ PositionOf(id1) - PositionOf(id2) \in {0 - 1, 1}

\* a request op on the page (a move: of the block) may begin beside the
\* request in progress, if there is one
MayJoin(op, pageId, blockId) ==
  \A q \in Slots :
    tasks[q] # Idle =>
      /\ tasks[q].page_id = pageId
      /\ \/ {op, tasks[q].op} = {"blockAdd"}
         \/ {op, tasks[q].op} = {"blockAdd", "blockDelete"}
         \/ {op, tasks[q].op} = {"blockMove", "blockDelete"}
         \/ /\ {op, tasks[q].op} = {"blockMove"}
            /\ tasks[q].pc \in {"list", "first"}
            /\ Adjacent(blockId, tasks[q].block_id)

PageOfBlock(idText) ==
  IF RowsById(blocks, idText) = {} THEN 0
  ELSE (CHOOSE b \in RowsById(blocks, idText) : TRUE).page_id

NextRace ==
  \/ \E s \in OneClient : AllIdle /\ Login(s, "admin", "admin123")
  \/ \E s \in OneClient :
       AllIdle /\ reqSeq = 0 /\ pageSeq < MaxRows /\ PageNew(s, <<"A">>, <<>>, "", "")
  \/ \E s \in OneClient, i \in RowIds :
       AllIdle /\ reqSeq = 0 /\ blockSeq < MaxBlocks /\ BlockAdd(s, i, "text")
  \/ \E r \in Slots, s \in OneClient, i \in RowIds :
       /\ reqSeq < Cardinality(Slots) /\ MayJoin("blockAdd", IdOf[i], 0)
       /\ AddStart(r, s, i)
  \/ \E r \in Slots : AddCount(r)
  \/ \E r \in Slots : AddInsert(r)
  \/ \E r \in Slots, s \in OneClient, i \in PlainIds :
       /\ reqSeq < Cardinality(Slots) /\ MayJoin("blockDelete", PageOfBlock(i), IdOf[i])
       /\ DelStart(r, s, i)
  \/ \E r \in Slots : DelDelete(r)
  \/ \E r \in Slots : DelList(r)
  \/ \E r \in Slots : DelUpdate(r)
  \/ \E r \in Slots : DelFinish(r)
  \/ \E r \in Slots, s \in OneClient, i \in PlainIds, d \in {"up", "down"} :
       /\ reqSeq < Cardinality(Slots) /\ MayJoin("blockMove", PageOfBlock(i), IdOf[i])
       /\ MoveStart(r, s, i, d)
  \/ \E r \in Slots : MoveList(r)
  \/ \E r \in Slots : MoveFirst(r)
  \/ \E r \in Slots : MoveSecond(r)

SpecRace == Init /\ [][NextRace]_vars

\* SpecHeal: a delete that is cut short.  Requests run alone; one delete
\* runs in steps and may end at a rejected statement after its DELETE.
NextHeal ==
  \/ \E s \in OneClient : AllIdle /\ Login(s, "admin", "admin123")
  \/ \E s \in OneClient :
       AllIdle /\ pageSeq < MaxRows /\ PageNew(s, <<"A">>, <<>>, "", "")
  \/ \E s \in OneClient, i \in RowIds :
       AllIdle /\ blockSeq < MaxBlocks /\ BlockAdd(s, i, "text")
  \/ \E s \in OneClient, i \in PlainIds : AllIdle /\ BlockDelete(s, i)
  \/ \E s \in OneClient, i \in PlainIds, d \in {"up", "down"} :
       AllIdle /\ BlockMove(s, i, d)
  \/ \E r \in Slots, s \in OneClient, i \in PlainIds :
       AllIdle /\ reqSeq = 0 /\ DelStart(r, s, i)
  \/ \E r \in Slots : DelDelete(r)
  \/ \E r \in Slots : DelList(r)
  \/ \E r \in Slots : DelUpdate(r)
  \/ \E r \in Slots : DelFinish(r)
  \/ \E r \in Slots : DelFail(r)

SpecHeal == Init /\ [][NextHeal]_vars

\* SpecMedia: uploads and media deletion, the unlink and the DELETE failing
\* or not.  Two uploads may get the same stamped name.
StampedNames == {"1_a.mp4", "2_a.mp4"}

NextMedia ==
  \/ \E s \in OneClient : Login(s, "admin", "admin123")
  \/ \E s \in OneClient : Logout(s)
  \/ \E s \in OneClient, h \in BOOLEAN, f \in StampedNames :
       mediaSeq < MaxBlocks /\ MediaUpload(s, h, f)
  \/ \E s \in OneClient, i \in PlainIds, u \in BOOLEAN, d \in BOOLEAN :
       MediaDelete(s, i, u, d)

SpecMedia == Init /\ [][NextMedia]_vars

\* SpecPublic: what the public sees.  Pages are created published or draft,
\* edited to the other status, given blocks, and deleted.
PublishForms ==
  { PageForm(<<"A">>, <<>>, "", "published"), PageForm(<<"B">>, <<>>, "", ""),
    PageForm(<<"A">>, <<>>, "", "draft"), PageForm(<<"B">>, <<>>, "", "published") }

NextPublic ==
  \/ \E s \in OneClient : Login(s, "admin", "admin123")
  \/ \E s \in OneClient, f \in PublishForms :
       pageSeq < MaxPages /\ PageNew(s, f.title, f.slug, f.audience, f.status)
  \/ \E s \in OneClient, i \in RowIds, f \in PublishForms :
       PageEdit(s, i, f.title, f.slug, f.audience, f.status)
  \/ \E s \in OneClient, i \in RowIds : PageDelete(s, i)
  \/ \E s \in OneClient, i \in RowIds :
       blockSeq < MaxBlocks /\ BlockAdd(s, i, "text")

SpecPublic == Init /\ [][NextPublic]_vars

\* SpecRead: listings read beside one writer.  The page (published) and its
\* blocks are set up by requests that run alone; then one move or one delete
\* runs in steps, and visitors and editors fetch the page's listing at any
\* point of it.
MaxReads == 2        \* listings fetched beside the writer
ReadSlugs == {<<"a">>, <<"b">>}
WriterSlot == "r1"
ReaderSlot == "r2"

NextRead ==
  \/ \E s \in OneClient : AllIdle /\ reqSeq = 0 /\ Login(s, "admin", "admin123")
  \/ \E s \in OneClient :
       AllIdle /\ reqSeq = 0 /\ pageSeq < MaxRows
               /\ PageNew(s, <<"A">>, <<>>, "", "published")
  \/ \E s \in OneClient, i \in RowIds :
       AllIdle /\ reqSeq = 0 /\ blockSeq < MaxBlocks /\ BlockAdd(s, i, "text")
  \/ \E s \in OneClient, i \in PlainIds :
       AllIdle /\ reqSeq = 0 /\ DelStart(WriterSlot, s, i)
  \/ DelDelete(WriterSlot)
  \/ DelList(WriterSlot)
  \/ DelUpdate(WriterSlot)
  \/ DelFinish(WriterSlot)
  \/ \E s \in OneClient, i \in PlainIds, d \in {"up", "down"} :
       AllIdle /\ reqSeq = 0 /\ MoveStart(WriterSlot, s, i, d)
  \/ MoveList(WriterSlot)
  \/ MoveFirst(WriterSlot)
  \/ MoveSecond(WriterSlot)
  \/ \E s \in Sessions, g \in ReadSlugs :
       reqSeq <= MaxReads /\ PublicStart(ReaderSlot, s, g)
  \/ PublicList(ReaderSlot)
  \/ \E s \in Sessions, i \in RowIds :
       reqSeq <= MaxReads /\ BlocksStart(ReaderSlot, s, i)
  \/ BlocksList(ReaderSlot)

SpecRead == Init /\ [][NextRead]_vars

\* ================================================================== claims
\* the page ids that pages or blocks carry
PageIds == {p.id : p \in pages} \cup {b.page_id : b \in blocks}

\* the blocks of b's page that come before / after b in position order
Before(rows, b) == {c \in BlocksOf(rows, b.page_id) : c.position < b.position}
After(rows, b) == {c \in BlocksOf(rows, b.page_id) : c.position > b.position}

\* the block with the largest position of a non-empty set, the smallest
LastOf(bs) == CHOOSE c \in bs : \A d \in bs : d.position <= c.position
FirstOf(bs) == CHOOSE c \in bs : \A d \in bs : c.position <= d.position

\* the request just handled was a move of an existing block by a logged-in
\* client, in the direction dir
MovedNow(b, dir) ==
  /\ last'.op = "blockMove" /\ last'.arg = dir
  /\ session[last'.sid] # NoUser
  /\ b \in blocks /\ b.id = last'.id

\* C1: for every page, after any sequence of completed block add, delete and
\* move requests, the positions of the page's blocks are exactly 1..N, N the
\* number of its blocks (no gap, no duplicate).
C1_PositionsGapless ==
  \A pid \in PageIds :
    LET bs == BlocksOf(blocks, pid)
    IN  /\ {b.position : b \in bs} = 1..Cardinality(bs)
        /\ \A b, c \in bs : b.position = c.position => b = c

\* C1 witness: three blocks were added, one was deleted and a move was just
\* done on a page that still has two blocks.
C1_Witness ==
  /\ blockSeq = 3 /\ Cardinality(blocks) = 2
  /\ last.op = "blockMove" /\ last.resp = "ok" /\ last.arg = "down"
  /\ \E pid \in PageIds :
       /\ BlocksOf(blocks, pid) = blocks
       /\ \E b \in blocks : b.id = 3 /\ b.position = 1

\* C2 (as claimed): after a page delete request completes no block row of
\* the deleted page is left, and every block's page reference points to an
\* existing page.
C2_CascadeDelete ==
  /\ (last.op = "pageDelete" /\ last.resp = "ok") => BlocksOf(blocks, last.id) = {}
  /\ \A b \in blocks : \E p \in pages : p.id = b.page_id

\* C3: a move up (down) of a block that is neither first nor last exchanges
\* its position with that of the block just before (after) it; no other
\* block of any page changes.
C3_MoveSwapsNeighbour ==
  [][\A b \in blocks :
       (Before(blocks, b) # {} /\ After(blocks, b) # {}) =>
         /\ MovedNow(b, "up") =>
              LET n == LastOf(Before(blocks, b))
              IN  /\ last'.resp = "ok"
                  /\ blocks' = (blocks \ {b, n}) \cup
                       {[b EXCEPT !.position = n.position],
                        [n EXCEPT !.position = b.position]}
         /\ MovedNow(b, "down") =>
              LET n == FirstOf(After(blocks, b))
              IN  /\ last'.resp = "ok"
                  /\ blocks' = (blocks \ {b, n}) \cup
                       {[b EXCEPT !.position = n.position],
                        [n EXCEPT !.position = b.position]}]_vars

\* C3 witness: block 2, added second to a page of three blocks, has just
\* been moved up and now stands first, block 1 second, block 3 third.
C3_Witness ==
  /\ last.op = "blockMove" /\ last.resp = "ok" /\ last.arg = "up" /\ last.id = 2
  /\ Cardinality(blocks) = 3
  /\ \E pid \in PageIds : BlocksOf(blocks, pid) = blocks
  /\ \A b \in blocks :
       b.position = (CASE b.id = 2 -> 1 [] b.id = 1 -> 2 [] OTHER -> 3)

\* C4: moving the first block of a page up, or the last block down, is
\* answered like any move (no error) and changes no block and no position.
C4_MoveAtEndIsNoop ==
  [][\A b \in blocks :
       (\/ MovedNow(b, "up") /\ Before(blocks, b) = {}
        \/ MovedNow(b, "down") /\ After(blocks, b) = {})
       => (last'.resp = "ok" /\ blocks' = blocks /\ UNCHANGED store)]_vars

\* C4 witness: on a page of two blocks the first one has just been moved up.
C4_Witness ==
  /\ last.op = "blockMove" /\ last.resp = "ok" /\ last.arg = "up"
  /\ \E b \in blocks :
       /\ b.id = last.id /\ b.position = 1
       /\ Cardinality(BlocksOf(blocks, b.page_id)) = 2

AdminOnlyOps == {"pageDelete", "mediaDelete", "userNew", "userDelete"}

MutatingOps ==
  { "pageNew", "pageEdit", "pageDelete", "blockAdd", "blockEdit", "blockDelete",
    "blockMove", "mediaUpload", "mediaDelete", "userNew", "userDelete" }

\* C5: page deletion, media deletion and user management change the store
\* only for a session of role admin; an editor session is answered
\* "forbidden" (not the login redirect) and the store stays as it was; an
\* admin session deleting a page succeeds, and the page is then in no
\* listing and found by no direct fetch.
C5_AdminOnly ==
  [][/\ (last'.op \in AdminOnlyOps /\ session[last'.sid].role = "editor")
          => (last'.resp = "forbidden" /\ last'.resp # "login" /\ UNCHANGED store)
     /\ (last'.op \in AdminOnlyOps /\ store' # store)
          => session[last'.sid].role = "admin"
     /\ (last'.op = "pageDelete" /\ session[last'.sid].role = "admin")
          => /\ last'.resp = "ok"
             /\ \A p \in pages :
                  p.id = last'.id =>
                    /\ p \notin Dashboard' /\ p \notin PublicHome'
                    /\ {q \in pages' : q.id = last'.id} = {}
                    /\ PublicPage(p.slug)'.resp = "notfound"]_vars

\* C5 witness: an editor session has just asked to delete an existing page.
C5_Witness ==
  /\ last.op = "pageDelete" /\ last.resp = "forbidden"
  /\ session[last.sid].role = "editor"
  /\ pages # {}

\* C6: every mutating request of a session without user is answered with
\* the redirect to the login page and changes nothing in the store.
C6_LoginRequired ==
  [][(last'.op \in MutatingOps /\ session[last'.sid] = NoUser)
       => (last'.resp = "login" /\ UNCHANGED store)]_vars

\* C6 witness: a session without user has just asked to delete a block,
\* with a page, a block and a media row in the store.
C6_Witness ==
  /\ last.op = "blockDelete" /\ last.resp = "login"
  /\ session[last.sid] = NoUser
  /\ pages # {} /\ blocks # {} /\ media # {}

\* C7 (as claimed): an admin session asking to delete the user row of its
\* own id, in whatever text the store matches to that row, is refused and
\* the row is still there.
C7_NoSelfDelete ==
  [][(/\ last'.op = "userDelete"
      /\ session[last'.sid].role = "admin"
      /\ last'.id = session[last'.sid].id
      /\ \E u \in users : u.id = last'.id)
       => (last'.resp = "badrequest" /\ users' = users)]_vars

\* the request just handled was a page form of a logged-in client (for an
\* edit: of an existing page); last'.arg is <<title, final slug>>
PageWrittenNow ==
  /\ last'.op \in {"pageNew", "pageEdit"}
  /\ session[last'.sid] # NoUser
  /\ last'.op = "pageEdit" => \E p \in pages : p.id = last'.id

\* another page than the one written has the slug
SlugTaken(rows, op, id, slug) ==
  \E q \in rows : q.slug = slug /\ (op = "pageEdit" => q.id # id)

SlugsUnique == \A p, q \in pages : p.slug = q.slug => p = q

\* C8 (as claimed): a page form whose normalized slug is the slug of another
\* page gets the conflict answer and changes no page; no two pages ever have
\* the same slug.
C8_CollisionConflicts ==
  /\ [][(PageWrittenNow /\ SlugTaken(pages, last'.op, last'.id, last'.arg[2]))
          => (last'.resp = "conflict" /\ pages' = pages)]_vars
  /\ []SlugsUnique

\* C8 (amended): the same for a form with a title; a form without title,
\* its slug field colliding or not, gets the validation answer and changes
\* no page either; no two pages ever have the same slug.
C8_CollisionConflictsWithTitle ==
  /\ [][(PageWrittenNow /\ SlugTaken(pages, last'.op, last'.id, last'.arg[2]))
          => /\ pages' = pages
             /\ last'.resp = (IF last'.arg[1] # <<>> THEN "conflict" ELSE "invalid")]_vars
  /\ []SlugsUnique

\* C8 witness: with one page stored, a second form with a title and the
\* same final slug has just been answered with the conflict.
C8_Witness ==
  /\ last.op = "pageNew" /\ last.resp = "conflict" /\ last.rej = "unique"
  /\ last.arg[1] # <<>>
  /\ \E p \in pages : p.slug = last.arg[2] /\ p.title # last.arg[1]

\* C9 (as claimed): the conflict answer tells a taken slug or username from
\* other failures: a write the store rejects for uniqueness is answered with
\* it, and it is given only when the slug or username is taken.
C9_ConflictMeansTaken ==
  /\ last.rej = "unique" => last.resp = "conflict"
  /\ last.resp = "conflict" =>
       CASE last.op = "pageNew" -> SlugTaken(pages, last.op, last.id, last.arg[2])
         [] last.op = "pageEdit" -> SlugTaken(pages, last.op, last.id, last.arg[2])
         [] last.op = "userNew" -> \E u \in users : u.username = last.arg
         [] OTHER -> FALSE

\* the submitted quiz_json parses to an object with a questions list
QuizOk(text) ==
  LET r == JSONparse(text)
  IN  r.ok /\ r.v.t = "object" /\ hasArrayMember(r.v.m, "questions")

\* the request just handled was an edit of the existing block b by a
\* logged-in client; last'.arg is the submitted quiz_json
EditedNow(b) ==
  /\ last'.op = "blockEdit"
  /\ session[last'.sid] # NoUser
  /\ b \in blocks /\ b.id = last'.id

\* C10: an edit of a quiz block whose quiz_json does not parse to an object
\* with a questions list is answered with the validation message and leaves
\* the stored payload as it was; an edit of a block of another type is never
\* answered with it; every stored quiz payload has a questions list.
C10_QuizValidated ==
  /\ [][\A b \in blocks :
          EditedNow(b) =>
            /\ (b.type = "quiz" /\ ~QuizOk(last'.arg))
                 => (last'.resp = "invalid" /\ blocks' = blocks)
            /\ b.type # "quiz" => last'.resp # "invalid"]_vars
  /\ [](\A b \in blocks : b.type = "quiz" => QuizOk(b.data_json))

\* C10 witness: a quiz block still holding its first payload has just been
\* edited with {"questions":3} and the edit was refused.
C10_Witness ==
  /\ last.op = "blockEdit" /\ last.resp = "invalid"
  /\ last.arg = <<Pn("{"), St("questions"), Pn(":"), Nm("3"), Pn("}")>>
  /\ \E b \in blocks :
       /\ b.id = last.id /\ b.type = "quiz"
       /\ b.data_json = JSONstringify(defaultData("quiz"))

\* C11: a session comes to hold an identity only by a login whose username
\* names a stored user and whose password verifies against that user's
\* hash, and the identity is that user's {id, username, role}; a login that
\* fails leaves every session as it was; a logout leaves its session without
\* identity, whatever it held.
C11_IdentityByLogin ==
  [][/\ \A s \in Sessions :
          (session'[s] # session[s] /\ session'[s] # NoUser) =>
            /\ last'.op = "login" /\ last'.sid = s /\ last'.resp = "ok"
            /\ \E u \in users :
                 /\ u.username = last'.arg[1]
                 /\ u.password_hash = hash(last'.arg[2])
                 /\ session'[s] = [id |-> u.id, username |-> u.username,
                                   role |-> u.role]
     /\ (last'.op = "login" /\ last'.resp # "ok") => session' = session
     /\ last'.op = "logout" => session'[last'.sid] = NoUser]_vars

\* C11 witness: one session holds the identity of the editor "ed" it logged
\* in as, and the other, which held an identity, has just logged out.
C11_Witness ==
  /\ last.op = "logout" /\ session[last.sid] = NoUser
  /\ \E s \in Sessions :
       /\ session[s].username = "ed" /\ session[s].role = "editor"
       /\ \E u \in users : session[s] = [id |-> u.id, username |-> u.username,
                                         role |-> u.role]

\* the slugs a public fetch is made with
FetchedSlugs == {<<"a">>, <<"b">>, <<"a", "b">>}

\* C12: the public home listing holds published pages only, and a public
\* fetch by the slug of a draft page, or by a slug no page has, is answered
\* not-found with no block; in every state page creation, editing (a
\* published page made draft again included) and deletion lead to.
C12_DraftsNotPublic ==
  /\ \A p \in PublicHome : p.status = "published"
  /\ \A p \in pages : p.status = "draft" => p \notin PublicHome
  /\ \A slug \in FetchedSlugs :
       (~\E p \in pages : p.slug = slug /\ p.status = "published")
         => PublicPage(slug) = [resp |-> "notfound", blocks |-> {}]

\* C12 witness: a page that has blocks has just been edited to draft, while
\* another page is published and listed.
C12_Witness ==
  /\ last.op = "pageEdit" /\ last.resp = "ok"
  /\ \E p \in pages :
       /\ p.id = last.id /\ p.status = "draft" /\ p.slug \in FetchedSlugs
       /\ BlocksOf(blocks, p.id) # {}
  /\ PublicHome # {}

\* the table a request's id parameter is looked up in
TargetRows(op) ==
  CASE op \in {"pageEdit", "pageDelete", "blockAdd"} -> pages
    [] op \in {"blockEdit", "blockDelete", "blockMove"} -> blocks
    [] op = "userDelete" -> users
    [] OTHER -> {}

\* the session may make the request: it is logged in, and is an admin where
\* the route asks for one
Authorized(op, s) ==
  /\ session[s] # NoUser
  /\ op \in {"pageDelete", "userDelete"} => session[s].role = "admin"

\* C13 (as claimed): an authorized page edit, page delete, block add, block
\* edit, block delete, block move or user delete whose id names no row is
\* answered not-found and changes nothing in the store.
C13_MissingIdNotFound ==
  [][(/\ last'.op \in {"pageEdit", "pageDelete", "blockAdd", "blockEdit",
                       "blockDelete", "blockMove", "userDelete"}
      /\ Authorized(last'.op, last'.sid)
      /\ ~\E r \in TargetRows(last'.op) : r.id = last'.id)
       => (last'.resp = "notfound" /\ UNCHANGED store)]_vars

\* the request just handled was a media delete by an admin session of the
\* stored row r
MediaDeletedNow(r) ==
  /\ last'.op = "mediaDelete"
  /\ session[last'.sid].role = "admin"
  /\ r \in media /\ r.id = last'.id

\* C14: a media delete treats the file and the row as a unit.  When the
\* file is there before and after the request (its removal failed), the row
\* is still there and the request ended in a failure; a request that ends
\* with the row gone and the file there, or with the file gone and the row
\* there, ended in a failure; a request answered normally has removed both.
C14_FileAndRowTogether ==
  [][\A r \in media :
       MediaDeletedNow(r) =>
         /\ (r.filename \in files /\ r.filename \in files')
              => (r \in media' /\ last'.resp = "fault")
         /\ (r \notin media' /\ r.filename \in files') => last'.resp = "fault"
         /\ (r \in media' /\ r.filename \in files /\ r.filename \notin files')
              => last'.resp = "fault"
         /\ last'.resp = "ok" => (r \notin media' /\ r.filename \notin files')]_vars

\* C14 witness: the unlink of an uploaded file has just failed; the row and
\* the file are both still there and the request ended in a failure.
C14_Witness ==
  /\ last.op = "mediaDelete" /\ last.resp = "fault" /\ last.rej = "unlink"
  /\ \E r \in media : r.id = last.id /\ r.filename \in files

\* the request just handled was a delete of the stored block b by a
\* logged-in client
DeletedNow(b) ==
  /\ last'.op = "blockDelete"
  /\ session[last'.sid] # NoUser
  /\ b \in blocks /\ b.id = last'.id

\* the row of blocks' that has the id of c
RowAfter(c) == CHOOSE d \in blocks' : d.id = c.id

\* C15: removing a block deletes that block and no other; the blocks left
\* on its page get the positions 1..N-1 in the order they had (of two of
\* them, the one with the smaller position before has the smaller position
\* after); nothing but positions changes, and the blocks of other pages are
\* as they were.
C15_DeleteRenumbers ==
  [][\A b \in blocks :
       DeletedNow(b) =>
         LET rest == BlocksOf(blocks, b.page_id) \ {b}
         IN  /\ last'.resp = "ok"
             /\ {c.id : c \in blocks'} = {c.id : c \in blocks} \ {b.id}
             /\ Cardinality(blocks') = Cardinality(blocks) - 1
             /\ \A c \in blocks \ {b} :
                  /\ c.page_id # b.page_id => c \in blocks'
                  /\ [c EXCEPT !.position = RowAfter(c).position] = RowAfter(c)
             /\ {RowAfter(c).position : c \in rest} = 1..Cardinality(rest)
             /\ \A c, d \in rest :
                  c.position < d.position
                    => RowAfter(c).position < RowAfter(d).position]_vars

\* C15 witness: of three blocks added to one page the first has just been
\* removed; the second now stands first and the third second.
C15_Witness ==
  /\ last.op = "blockDelete" /\ last.resp = "ok" /\ last.id = 1
  /\ Cardinality(blocks) = 2
  /\ \E pid \in PageIds : BlocksOf(blocks, pid) = blocks
  /\ \A b \in blocks : b.position = (CASE b.id = 2 -> 1 [] OTHER -> 2)
  /\ {b.id : b \in blocks} = {2, 3}

\* C16: a block added to a page is stored with the position "number of
\* blocks already on the page, plus one"; it is then the last block of the
\* page in position order, and every block that was there is unchanged.
C16_AddIsLast ==
  [][(/\ last'.op = "blockAdd"
      /\ session[last'.sid] # NoUser
      /\ \E p \in pages : p.id = last'.id
      /\ last'.arg \in BlockTypes)
       => /\ last'.resp = "ok"
          /\ blocks \subseteq blocks'
          /\ \E n \in blocks' :
               /\ blocks' = blocks \cup {n}
               /\ \A c \in blocks : c.id # n.id
               /\ n.page_id = last'.id
               /\ n.position = Cardinality({c \in blocks : c.page_id = last'.id}) + 1
               /\ \A c \in blocks : c.page_id = n.page_id => c.position < n.position]_vars

\* C16 witness: two blocks were added to a page, the first was removed, and
\* a third has just been added: it has position 2, after block 2 at 1.
C16_Witness ==
  /\ last.op = "blockAdd" /\ last.resp = "ok" /\ blockSeq = 3
  /\ {b.id : b \in blocks} = {2, 3}
  /\ \A b \in blocks : b.page_id = last.id /\ b.position = b.id - 1

\* C17 (as claimed): when two requests on one page have interleaved at
\* their awaits (two adds; an add and a delete; a move and a delete; two
\* moves of adjacent blocks) and both have ended, the positions of the
\* page's blocks are exactly 1..N, with no gap and no duplicate.
C17_InterleavedGapless ==
  (AllIdle /\ reqSeq = Cardinality(Slots)) =>
    \A pid \in PageIds :
      /\ {b.position : b \in BlocksOf(blocks, pid)}
           = 1..Cardinality(BlocksOf(blocks, pid))
      /\ Cardinality({b.position : b \in BlocksOf(blocks, pid)})
           = Cardinality(BlocksOf(blocks, pid))

\* C18: the renumbering heals.  Whatever a delete that was cut short after
\* its DELETE has left (a gap), and whatever adds and moves came after it
\* (duplicates), once a later delete of a block of the page has completed
\* the positions of the page are exactly 1..N again.
C18_DeleteHeals ==
  [][\A b \in blocks :
       (AllIdle /\ DeletedNow(b) /\ last'.resp = "ok") =>
         /\ {c.position : c \in BlocksOf(blocks', b.page_id)}
              = 1..Cardinality(BlocksOf(blocks', b.page_id))
         /\ Cardinality(BlocksOf(blocks', b.page_id))
              = Cardinality(BlocksOf(blocks, b.page_id)) - 1]_vars

\* C18 witness: of two blocks the first was deleted by a request that ended
\* at a rejected statement, leaving block 2 at position 2; block 3 was then
\* added, at position 2 as well; block 2 has just been deleted and block 3
\* is at position 1.
C18_Witness ==
  /\ \E r \in Slots : tasks[r] = Rejected
  /\ last.op = "blockDelete" /\ last.resp = "ok" /\ last.id = 2
  /\ blockSeq = 3
  /\ \E b \in blocks : blocks = {b} /\ b.id = 3 /\ b.position = 1

\* C19 (as claimed): a mutating or admin-only request that gets past the
\* login gate or the admin gate is made by a session whose user is in the
\* user store at that moment.
C19_GateMeansStoredUser ==
  [][(last'.op \in MutatingOps /\ last'.resp \notin {"login", "forbidden"})
       => \E u \in users : u.id = session[last'.sid].id]_vars

\* C20 (as claimed): in every state that logins, user creations and user
\* deletions of any sessions lead to from the seeded store, the user store
\* holds at least one user of role admin.
C20_AnAdminExists == \E u \in users : u.role = "admin"

\* ---------------------------------------------------------------------- C21
\* the request of slot r, a public render or an admin listing, reads its
\* listing now and returns it (in last'.arg)
ListingReadNow(r) ==
  /\ tasks[r].op \in {"publicPage", "pageBlocks"}
  /\ tasks[r].pc = "list"
  /\ tasks'[r] = Idle

\* the request of slot q is a move or a delete on the page, between its
\* storage writes: a move after its first UPDATE and before its second, a
\* delete after its DELETE and before the last UPDATE of its loop
BetweenWrites(q, pageId) ==
  /\ tasks[q].page_id = pageId
  /\ \/ Suspended(q, "blockMove", "second")
     \/ Suspended(q, "blockDelete", "list")
     \/ Suspended(q, "blockDelete", "renumber") /\ tasks[q].i <= Len(tasks[q].listing)

PositionsDistinct(listing) ==
  \A i, j \in 1..Len(listing) : i # j => listing[i].position # listing[j].position

\* C21: a position-ordered listing of a page's blocks, public or admin, that
\* is read while a move or a delete on that page is between its storage
\* writes, never holds two blocks with the same position.
C21_ListingNeverDuplicates ==
  [][ \A r \in Slots :
        (ListingReadNow(r) /\ \E q \in Slots : BetweenWrites(q, tasks[r].page_id))
          => PositionsDistinct(last'.arg) ]_vars
====
